---- MODULE Spec2Model ----
(***************************************************************************)
(* A model of pyrosetta_help's AF2NotebookAnalyser                         *)
(* (src/pyrosetta_help/alphafold/multimodel.py): the catalog built from a  *)
(* ColabFold result directory, its enrichment from settings.txt, the three *)
(* pose groups, the refinement pipeline, persistence, and the Phosphosite  *)
(* annotation parser; and of the blueprint editor BlueprinterSubscripted   *)
(* (src/blueprint_maker/_subscripted.py).                                  *)
(*                                                                         *)
(* Conventions.  A Python dict is a pair of a key sequence (insertion      *)
(* order) and a function on the keys.  A pandas DataFrame is a record      *)
(* [cols, rows]: the set of column names and the sequence of rows, each    *)
(* row a function on cols.  A float is held in tenths (85.2 is 852).  A    *)
(* file of a directory is a record [kind, rank, tag, model, seed, body];   *)
(* body is the refinement state of the structure stored in it, and what    *)
(* the code's regular expressions make of its name is decided by kind:     *)
(*   "model"  name_seed_<tag>_rank_<rank>_model_<m>.pdb  (ColabFold)       *)
(*   "dump"   rank_<rank>_pyrosetta_<tag>.pdb            (dump_pdbs)       *)
(*   "ranked" rank<rank>.pdb              (what load reads; never written) *)
(*   "other"  any name without rank_<digits>...pdb       (json, txt, png)  *)
(* A pose is an object: its identity is the file it was read from and the  *)
(* number of clones between it and that file, and a mover applied to it    *)
(* shows in every entry of the registry that is the same object.  The      *)
(* refinement engine is outside the repository: FastRelax.apply returns    *)
(* or raises.  A method with a loop is a Begin action, one Step per pass   *)
(* and an End action; budget is the number of calls the caller makes.      *)
(*                                                                         *)
(* Specifications.  SpecCatalog: construction and enrichment over rich     *)
(* listings.  Spec: every method, two calls.  SpecStore: refinement, dump  *)
(* and load, three calls.  SpecGenerator: a generator held by the caller   *)
(* while sidechain_relax and constrain run, three calls.  SpecPhospho:     *)
(* make_phosphorylated over annotations of every kind, two calls.          *)
(* SpecPTM: the annotation parser.  SpecBlueprint: deletions and           *)
(* insertions on a blueprint, three calls.                                 *)
(***************************************************************************)
EXTENDS Integers, Sequences, FiniteSets, TLC

\* ------------------------------------------------------------------ bounds
MaxFiles == 4
MaxRank == 3
MaxLines == 2
MaxModels == 2
MaxCalls == 3
MaxSteps == 2
MaxRows == 3
MaxTokens == 3

Ranks == 1..MaxRank
Dirs == {"colab", "out"}

\* NaN, the value pandas' map gives a key that the lookup table lacks.
NaN == 0 - 1

Tenths(whole, frac) == 10 * whole + frac

\* The sentinel of a missing settings file, as a float in tenths.
Sentinel == Tenths(100, 0)

VARIABLES
    listing,        \* Dirs -> sequence of files, in os.listdir order
    hasSettings,    \* Dirs -> settings.txt exists
    settings,       \* the lines of settings.txt in the ColabFold directory
    nchains,        \* number of chains of the predicted complex
    csv,            \* Dirs -> scores.csv (<<>> when absent, else <<table>>)
    folder,         \* self.folder
    load_poses,     \* the constructor's argument
    scores,         \* self.scores
    original_poses, \* self.original_poses : rank -> pose
    relaxed_poses,  \* self.relaxed_poses
    phospho_poses,  \* self.phospho_poses
    errors,         \* self.errors, as the key sequence of the dict
    pc,             \* position of the running call
    op,             \* the running call, or the last one
    err,            \* the exception the last call raised, "none" if none
    warned,         \* warnings.warn was called by _add_settings
    grp,            \* the group the running call, or the last one, names
    it,             \* position of the running call in the keys of errors
    arg,            \* the folder argument of the last dump or load
    calls,          \* number of calls made on the constructed analyser
    cloned,         \* rank -> number of clones made from original into relaxed
    dumped,         \* Dirs -> the relaxed group as last dumped there
    weight,         \* the constraint weight of the scorefxn last built,
                    \* at first the one get_fa_scorefxn() comes with
    stage,          \* position of constrain_and_relax in its stages, 0 outside
    done,           \* passes of each kind made by the running call
    local,          \* the converted annotations of make_phosphorylated
    budget,         \* the number of calls the caller makes
    gen,            \* the generator the caller holds: its group and position
    yielded,        \* the triples it has produced
    tokens,         \* the annotations pasted from the Phosphosite table
    raw,            \* their text, a sequence of characters
    minimum,        \* the arguments of parse_phosphosite
    maximum,
    ptms,           \* what parse_phosphosite returned
    parsed,         \* "no", "returned" or "AssertionError"
    rows            \* self.rows of the blueprint editor

vars == <<listing, hasSettings, settings, nchains, csv, folder, load_poses, scores,
          original_poses, relaxed_poses, phospho_poses, errors, pc, op, err,
          warned, grp, it, arg, calls, cloned, dumped, weight, stage,
          done, local, budget, gen, yielded,
          tokens, raw, minimum, maximum, ptms,
          parsed, rows>>

ptmvars == <<tokens, raw, minimum, maximum, ptms, parsed>>

\* the blueprint editor
bpvars == <<rows>>

objvars == <<folder, load_poses, scores, original_poses, relaxed_poses,
             phospho_poses, errors>>

histvars == <<cloned, dumped>>

loopvars == <<grp, it>>

\* the caller: the calls it has to make, the generator it was given
uservars == <<budget, gen, yielded>>

\* the locals of the running call
callvars == <<weight, stage, done, local>>

\* the directories, the pasted annotations, the blueprint and what the
\* caller holds
fsvars == <<listing, hasSettings, settings, nchains, csv, ptmvars, bpvars,
            uservars>>

\* ------------------------------------------------------------ dictionaries
EmptyDict == [keys |-> <<>>, val |-> <<>>]

InSeq(x, s) == \E i \in 1..Len(s) : s[i] = x

HasKey(d, k) == InSeq(k, d.keys)

\* d[k] = v : a new key goes last, an old key keeps its place.
DictSet(d, k, v) ==
    [keys |-> IF HasKey(d, k) THEN d.keys ELSE Append(d.keys, k),
     val  |-> [x \in DOMAIN d.val \cup {k} |-> IF x = k THEN v ELSE d.val[x]]]

DictValues(d) == [i \in 1..Len(d.keys) |-> d.val[d.keys[i]]]

\* ------------------------------------------------------------- data frames
EmptyFrame == [cols |-> {}, rows |-> <<>>]

\* pd.DataFrame(list of dicts): the columns are the keys of the dicts, so a
\* frame made of no dict has no column at all.
DataFrame(records) ==
    [cols |-> UNION {DOMAIN records[i] : i \in 1..Len(records)},
     rows |-> records]

RankColumn(df) == [i \in 1..Len(df.rows) |-> df.rows[i]["rank"]]

RanksOf(df) == {df.rows[i]["rank"] : i \in 1..Len(df.rows)}

\* (the frame rebuilt with the rows in the opposite order)
WithColumnReversed(df, name, value) ==
    [cols |-> df.cols \cup {name},
     rows |-> [i \in 1..Len(df.rows) |->
                 [c \in df.cols \cup {name} |->
                     IF c = name THEN value[df.rows[Len(df.rows) + 1 - i]["rank"]]
                     ELSE df.rows[Len(df.rows) + 1 - i][c]]]]

\* df[name] = df['rank'].apply(f) / .map(f): one value per row, the value
\* f gives its rank; value is f on the ranks of df.
WithColumn(df, name, value) ==
    [cols |-> df.cols \cup {name},
     rows |-> [i \in 1..Len(df.rows) |->
                 [c \in df.cols \cup {name} |->
                     IF c = name THEN value[df.rows[i]["rank"]]
                     ELSE df.rows[i][c]]]]

\* ------------------------------------------------------- file name patterns
\* re.search('rank_\d+.*\.pdb', filename)
IsStructureName(f) == f.kind \in {"model", "dump"}

\* re.search('(?P<name>.*)_(?P<seed>\d+)_(?P<state>\w+)_rank_(?P<rank>\d+)_model_(?P<model>\d+)\.pdb', filename)
\* is None for a name without _model_<digits>.pdb
RexMatches(f) == f.kind = "model"

\* state = 'unrelaxed' not in rex.group('state')
RelaxedState(f) == f.tag # "unrelaxed"

\* ------------------------------------------------------ make_AF2_dataframe
\* One pass of the loop body over file i of the listing; acc is
\* [raised, ranked] with ranked the dict ranked_filenames.
RankedRow(d, i, f) ==
    [name |-> i, path |-> <<d, i>>, rank |-> f.rank, model |-> f.model,
     seed |-> f.seed, relaxed |-> RelaxedState(f)]

\* (first candidate of a rank wins, whatever its state)
SkipsCandidateFirstSeen(ranked, f) == HasKey(ranked, f.rank)

\* if rank in ranked_filenames and ranked_filenames[rank]['relaxed']: continue
SkipsCandidate(ranked, f) ==
    HasKey(ranked, f.rank) /\ ranked.val[f.rank]["relaxed"]

\* (a list of candidates instead of a dict keyed by rank)
RecordAppended(ranked, rank, data) ==
    [keys |-> Append(ranked.keys, Len(ranked.keys) + 1),
     val  |-> [x \in DOMAIN ranked.val \cup {Len(ranked.keys) + 1} |->
                 IF x = Len(ranked.keys) + 1 THEN data ELSE ranked.val[x]]]

\* ranked_filenames[rank] = data
Record(ranked, rank, data) == DictSet(ranked, rank, data)

RECURSIVE GroupFiles(_, _, _, _)
GroupFiles(d, files, i, acc) ==
    IF i > Len(files) \/ acc.raised # "none" THEN acc
    ELSE LET f == files[i] IN
         IF ~IsStructureName(f) THEN GroupFiles(d, files, i + 1, acc)
         ELSE IF ~RexMatches(f)
              THEN [acc EXCEPT !.raised = "AttributeError"]
         ELSE IF SkipsCandidate(acc.ranked, f)
              THEN GroupFiles(d, files, i + 1, acc)
         ELSE GroupFiles(d, files, i + 1,
                         [acc EXCEPT !.ranked = Record(acc.ranked, f.rank,
                                                       RankedRow(d, i, f))])

make_AF2_dataframe(d, files) ==
    LET acc == GroupFiles(d, files, 1, [raised |-> "none", ranked |-> EmptyDict])
    IN  [raised |-> acc.raised,
         frame  |-> IF acc.raised = "none"
                    THEN DataFrame(DictValues(acc.ranked)) ELSE EmptyFrame]

\* ------------------------------------------------------------ _add_settings
\* float('85.2') of the text <<85, 2>>
Float(text) == Tenths(text[1], text[2])

\* The two lookup tables filled from the matches of
\* 'rank_(\d+).*pLDDT\:(\d+\.\d+)\ pTMscore:(\d+\.\d+)': a later line of a
\* rank overwrites an earlier one.
RECURSIVE Lookup(_, _, _)
Lookup(lines, field, i) ==
    IF i = 0 THEN EmptyDict
    ELSE DictSet(Lookup(lines, field, i - 1), lines[i].rank, Float(lines[i][field]))

\* (a rank without a line filled with the sentinel instead of NaN)
MapRankFilled(table, rank) ==
    IF HasKey(table, rank) THEN table.val[rank] ELSE Sentinel

\* Series.map(dict)
MapRank(table, rank) == IF HasKey(table, rank) THEN table.val[rank] ELSE NaN

\* The result of _add_settings on the frame df: the exception it raises, the
\* frame as it is left, and whether the warning was emitted.
_add_settings(df, exists, lines) ==
    IF "rank" \notin df.cols
    THEN [raised |-> "KeyError", frame |-> df, warned |-> ~exists]
    ELSE IF ~exists
    THEN [raised |-> "FileNotFoundError",
          frame  |-> LET s == [r \in RanksOf(df) |-> Sentinel] IN
                     WithColumn(WithColumn(df, "pLDDT", s), "pTMscore", s),
          warned |-> TRUE]
    ELSE LET pLDDTs    == Lookup(lines, "pLDDT", Len(lines))
             pTMscores == Lookup(lines, "pTMscore", Len(lines))
             a == [r \in RanksOf(df) |-> MapRank(pLDDTs, r)]
             b == [r \in RanksOf(df) |-> MapRank(pTMscores, r)]
         IN  [raised |-> "none",
              frame  |-> WithColumn(WithColumn(df, "pLDDT", a), "pTMscore", b),
              warned |-> FALSE]

\* ------------------------------------------------------ get_poses, get_errors
\* pose.residue(r).name3() of a residue: its amino acid and the patch put
\* on it ("SER", and "SEP" once phosphorylated)
Unpatched(base) == [base |-> base, patch |-> "none"]

\* the residues of chain A of the predicted complex, the same in every model
Residues == <<Unpatched("SER"), Unpatched("LYS"), Unpatched("ARG")>>

\* pyrosetta.pose_from_file(path): the structure stored in the file, with no
\* constraint, owned by nobody else.  chi, bb and nbr count the
\* sidechain-only, the full and the neighbourhood refinements the structure
\* has been through; clone counts the clone() calls between the file and
\* this object.
PoseFromFile(path, f, n) ==
    [file |-> path, chains |-> n, chi |-> f.body.chi, bb |-> f.body.bb,
     cst |-> FALSE, clone |-> 0, res |-> Residues, nbr |-> 0]

RowOfRank(df, r) == CHOOSE i \in 1..Len(df.rows) : df.rows[i]["rank"] = r

\* poses[row['rank']] = pyrosetta.pose_from_file(row['path'])
get_poses(df, fs, n) ==
    [r \in RanksOf(df) |->
        LET path == df.rows[RowOfRank(df, r)]["path"]
        IN  PoseFromFile(path, fs[path[1]][path[2]], n)]

\* errors[row['rank']] = np.array(json.load(fh)['pae']), for the rows in
\* order; every model file is taken to have its _scores.json sibling.
get_errors(df) == RankColumn(df)

\* no entry in a pose group
NoPoses == [r \in {} |-> 0]

\* ------------------------------------------------------------- __init__
\* self.scores = self.make_AF2_dataframe()
Construct(d) ==
    /\ pc = "new"
    /\ LET built == make_AF2_dataframe(d, listing[d]) IN
       /\ folder' = d
       /\ op' = "__init__"
       /\ scores' = built.frame
       /\ err' = built.raised
       /\ pc' = IF built.raised = "none" THEN "built" ELSE "failed"
    /\ UNCHANGED <<fsvars, load_poses, original_poses, relaxed_poses,
                   phospho_poses, errors, warned, loopvars, arg, calls,
                   histvars, callvars>>

\* self._add_settings()
AddSettings ==
    /\ pc = "built"
    /\ LET res == _add_settings(scores, hasSettings[folder], settings) IN
       /\ scores' = res.frame
       /\ warned' = res.warned
       /\ err' = res.raised
       /\ pc' = IF res.raised = "none" THEN "enriched" ELSE "failed"
    /\ UNCHANGED <<fsvars, folder, load_poses, original_poses, relaxed_poses,
                   phospho_poses, errors, op, loopvars, arg, calls, histvars,
                   callvars>>

\* the three empty groups, get_poses() when load_poses asks for it (the
\* argument is drawn here, where it is first read), get_errors()
LoadPoses(lp) ==
    /\ pc = "enriched"
    /\ load_poses' = lp
    /\ relaxed_poses' = NoPoses
    /\ phospho_poses' = NoPoses
    /\ original_poses' = IF lp THEN get_poses(scores, listing, nchains)
                         ELSE NoPoses
    /\ errors' = get_errors(scores)
    /\ pc' = "idle"
    /\ UNCHANGED <<fsvars, folder, scores, op, err, warned, loopvars, arg,
                   calls, histvars, callvars>>

\* ------------------------------------------------------------ pose groups
\* self.poses[groupname]
Poses(g) ==
    CASE g = "relaxed"  -> relaxed_poses
      [] g = "original" -> original_poses
      [] g = "phospho"  -> phospho_poses

Put(group, r, p) ==
    [x \in DOMAIN group \cup {r} |-> IF x = r THEN p ELSE group[x]]

\* (no copy: the same object under a second name)
CloneAliased(p) == p

\* pose.clone(): a new object with the conformation and the constraints
Clone(p) == [p EXCEPT !.clone = @ + 1]

\* two entries of the registry are one object
SameObject(p, q) == p.file = q.file /\ p.clone = q.clone

\* a mover applied to the object target, which leaves it as new: every entry
\* of the group that is that object shows the change
InPlace(group, target, new) ==
    [r \in DOMAIN group |->
        IF SameObject(group[r], target) THEN new ELSE group[r]]

\* FastRelax.apply(pose) with a movemap of chi only, and of everything
ChiRelaxed(p) == [p EXCEPT !.chi = @ + 1]

FullRelaxed(p) == [p EXCEPT !.bb = @ + 1]

\* add_pae_constraints and add_interchain_pae_constraints on the pose
Constrained(p) == [p EXCEPT !.cst = TRUE]

\* scorefxn(pose): a value of the conformation, and of the constraints when
\* the weight of atom_pair_constraint is not 0
Score(p, w) ==
    <<"score", p.file, p.chi, p.bb, IF w = 0 THEN FALSE ELSE p.cst>>

\* a call on the constructed analyser
Idle == pc = "idle" /\ calls < budget

\* what a call that does not touch the directories leaves alone
Quiet == UNCHANGED <<fsvars, folder, load_poses, warned, arg, dumped>>

\* (a clone on every pass)
NeedsCloneAlways(group, index) == TRUE

\* if index not in self.relaxed_poses:
NeedsClone(group, index) == index \notin DOMAIN group

\* -------------------------------------------------------- _generator_poses
\* (no assertion at the call)
GroupLoadedAlways(g) == TRUE

\* _generator_poses(groupname): the assertion made at the call
GroupLoaded(g) == DOMAIN Poses(g) # {}

\* no generator at hand
NoGenerator == [grp |-> "none", pos |-> 0]

\* (the join of the error table and the group validated before any triple)
MissingAnywhere(group, keys, i) ==
    \E j \in 1..Len(keys) : keys[j] \notin DOMAIN group

\* self.poses[groupname][index] raises KeyError at key i
Missing(group, keys, i) == keys[i] \notin DOMAIN group

\* (the rank paired with the first pose of the group)
TripleOfFirst(group, index) ==
    [index |-> index,
     pose  |-> group[CHOOSE r \in DOMAIN group : \A x \in DOMAIN group : r <= x],
     error |-> index]

\* (index, self.poses[groupname][index], self.errors[index])
Triple(group, index) ==
    [index |-> index, pose |-> group[index], error |-> index]

\* (the test of line 167 left out)
NotLoadedIgnored(original) == FALSE

\* if len(self.original_poses) == 0: raise ValueError('Load poses first.')
NotLoaded(original) == DOMAIN original = {}

\* scorefxn.set_weight(ap_st, ...) before the loop of the method
WeightOf(name) == IF name = "sidechain_relax" THEN 0 ELSE 1

\* (the weight left as the loop had it)
RescoreWeightKept(w) == w

\* scorefxn.set_weight(ap_st, 0) after the loop of relax
RescoreWeight(w) == 0

\* no pass made yet
NoPasses == [chi |-> 0, cst |-> 0, bb |-> 0]

\* the pass of a method counted
Counted(d, name) ==
    CASE name = "sidechain_relax" -> [d EXCEPT !.chi = @ + 1]
      [] name = "constrain"       -> [d EXCEPT !.cst = @ + 1]
      [] name = "relax"           -> [d EXCEPT !.bb = @ + 1]

\* (constraints after the full refinement)
StagesConstrainLast == <<"sidechain_relax", "relax", "constrain">>

\* constrain_and_relax: self.sidechain_relax(); self.constrain(); self.relax(cycles)
Stages == <<"sidechain_relax", "constrain", "relax">>

\* the group each of them iterates over when called without a group
StageGroup(name) == IF name = "constrain" THEN "relaxed" ELSE "original"

\* the call of one of the three methods, up to the head of its loop: where
\* the call stands, the exception raised on the way and the weight of the
\* scorefxn it built; w is the weight of the scorefxn at hand before
Enter(name, g, w) ==
    IF name = "constrain"
    THEN IF NotLoaded(original_poses)
         THEN [pc |-> "idle", grp |-> g, it |-> it, err |-> "ValueError",
               weight |-> w]
         ELSE IF ~GroupLoaded(g)
         THEN [pc |-> "idle", grp |-> g, it |-> it, err |-> "AssertionError",
               weight |-> w]
         ELSE [pc |-> name, grp |-> g, it |-> 1, err |-> "none", weight |-> w]
    ELSE IF ~GroupLoaded(g)
         THEN [pc |-> "idle", grp |-> g, it |-> it, err |-> "AssertionError",
               weight |-> WeightOf(name)]
         ELSE [pc |-> name, grp |-> g, it |-> 1, err |-> "none",
               weight |-> WeightOf(name)]

\* the return of a method whose loop is over: to the caller, or, within
\* constrain_and_relax, into the call of the next stage
Leave(w) ==
    IF stage = 0 \/ stage = Len(Stages)
    THEN [pc |-> "idle", grp |-> grp, it |-> it, err |-> err, weight |-> w,
          stage |-> 0]
    ELSE LET next == Enter(Stages[stage + 1], StageGroup(Stages[stage + 1]), w)
         IN  [pc |-> next.pc, grp |-> next.grp, it |-> next.it,
              err |-> next.err, weight |-> next.weight,
              stage |-> IF next.pc = "idle" THEN 0 ELSE stage + 1]

\* the call of a method by the caller
Begin(name, g) ==
    /\ Idle
    /\ op' = name
    /\ calls' = calls + 1
    /\ LET at == Enter(name, g, weight) IN
       /\ pc' = at.pc /\ grp' = at.grp /\ it' = at.it /\ err' = at.err
       /\ weight' = at.weight
    /\ stage' = 0
    /\ done' = NoPasses
    /\ Quiet
    /\ UNCHANGED <<scores, original_poses, relaxed_poses, phospho_poses,
                   errors, cloned, local>>

\* the loop of a method is over
End(name) ==
    /\ pc = name
    /\ it > Len(errors)

\* what the end of a loop that writes nothing leaves alone
Returns(w) ==
    LET to == Leave(w) IN
    /\ pc' = to.pc /\ grp' = to.grp /\ it' = to.it /\ err' = to.err
    /\ weight' = to.weight /\ stage' = to.stage
    /\ Quiet
    /\ UNCHANGED <<original_poses, relaxed_poses, phospho_poses, errors, op,
                   calls, cloned, done, local>>

\* --------------------------------------------------------- sidechain_relax
SidechainRelaxBegin == Begin("sidechain_relax", "original")

\* FastRelax.apply(pose): it returns, or the engine raises and the pass is
\* not counted as one the structure has been through
Outcomes == {"returned", "raised"}

\* (the failed rank skipped, the loop carried on)
AfterFailureContinue(name) == name

\* an exception of the engine is not caught: the method is left
AfterFailure(name) == "idle"

\* one pass of the loop of sidechain_relax or relax: the generator looks
\* errors[it] up in the group, the body clones it into relaxed when the rank
\* is not there yet and refines the relaxed pose of the rank
RefineStep(name) ==
    /\ pc = name
    /\ it <= Len(errors)
    /\ LET index == errors[it] IN
       IF Missing(Poses(grp), errors, it)
       THEN /\ pc' = "idle" /\ err' = "KeyError" /\ stage' = 0
            /\ UNCHANGED <<original_poses, relaxed_poses, phospho_poses,
                           cloned, it, done>>
       ELSE \E outcome \in Outcomes :
            LET fresh == NeedsClone(relaxed_poses, index)
                pose == Triple(Poses(grp), index).pose
                target == IF fresh THEN Clone(pose)
                          ELSE relaxed_poses[index]
                refined == IF outcome = "raised" THEN target
                           ELSE IF name = "relax" THEN FullRelaxed(target)
                           ELSE ChiRelaxed(target)
            IN  /\ relaxed_poses' =
                      InPlace(Put(relaxed_poses, index, target), target, refined)
                /\ original_poses' = InPlace(original_poses, target, refined)
                /\ phospho_poses' = InPlace(phospho_poses, target, refined)
                /\ cloned' = IF fresh THEN [cloned EXCEPT ![index] = @ + 1]
                             ELSE cloned
                /\ IF outcome = "returned"
                   THEN /\ it' = it + 1
                        /\ done' = Counted(done, name)
                        /\ UNCHANGED <<pc, err, stage>>
                   ELSE /\ pc' = AfterFailure(name)
                        /\ err' = "RuntimeError"
                        /\ stage' = IF AfterFailure(name) = "idle" THEN 0 ELSE stage
                        /\ it' = IF AfterFailure(name) = "idle" THEN it ELSE it + 1
                        /\ UNCHANGED done
    /\ Quiet
    /\ UNCHANGED <<scores, errors, op, grp, calls, weight, local>>

SidechainRelaxStep == RefineStep("sidechain_relax")

SidechainRelaxEnd ==
    /\ End("sidechain_relax")
    /\ Returns(weight)
    /\ UNCHANGED scores

\* ------------------------------------------------------------------- relax
RelaxBegin == Begin("relax", "original")

RelaxStep == RefineStep("relax")

\* (the energy of the pose at the position of the row among the poses)
EnergyColumnPositional(df, relaxed, w) ==
    LET nth(i) == CHOOSE r \in DOMAIN relaxed :
                      Cardinality({x \in DOMAIN relaxed : x <= r}) = i
    IN  [r \in RanksOf(df) |-> Score(relaxed[nth(RowOfRank(df, r))], w)]

\* self.scores['rank'].apply(lambda rank: scorefxn(self.relaxed_poses[rank]))
EnergyColumn(df, relaxed, w) ==
    [r \in RanksOf(df) |-> Score(relaxed[r], w)]

\* scorefxn.set_weight(ap_st, 0); self.scores['dG'] = ...
RelaxEnd ==
    /\ End("relax")
    /\ IF \A i \in 1..Len(scores.rows) : scores.rows[i]["rank"] \in DOMAIN relaxed_poses
       THEN /\ scores' = WithColumn(scores, "dG",
                            EnergyColumn(scores, relaxed_poses, RescoreWeight(weight)))
            /\ Returns(RescoreWeight(weight))
       ELSE /\ err' = "KeyError"
            /\ pc' = "idle"
            /\ stage' = 0
            /\ weight' = RescoreWeight(weight)
            /\ Quiet
            /\ UNCHANGED <<scores, original_poses, relaxed_poses, phospho_poses,
                           errors, op, loopvars, calls, cloned, done, local>>

\* --------------------------------------------------------------- constrain
ConstrainBegin(g) == Begin("constrain", g)

ConstrainStep ==
    /\ pc = "constrain"
    /\ it <= Len(errors)
    /\ LET index == errors[it] IN
       IF Missing(Poses(grp), errors, it)
       THEN /\ pc' = "idle" /\ err' = "KeyError" /\ stage' = 0
            /\ UNCHANGED <<original_poses, relaxed_poses, phospho_poses, it, done>>
       ELSE LET target == Triple(Poses(grp), index).pose
                p == Constrained(target)
            IN  /\ relaxed_poses' = InPlace(relaxed_poses, target, p)
                /\ original_poses' = InPlace(original_poses, target, p)
                /\ phospho_poses' = InPlace(phospho_poses, target, p)
                /\ it' = it + 1
                /\ done' = Counted(done, "constrain")
                /\ UNCHANGED <<pc, err, stage>>
    /\ Quiet
    /\ UNCHANGED <<scores, errors, op, grp, calls, cloned, weight, local>>

ConstrainEnd ==
    /\ End("constrain")
    /\ Returns(weight)
    /\ UNCHANGED scores

\* ----------------------------------------------------- constrain_and_relax
\* the call of its first stage
ConstrainAndRelax ==
    /\ Idle
    /\ op' = "constrain_and_relax"
    /\ calls' = calls + 1
    /\ LET at == Enter(Stages[1], StageGroup(Stages[1]), weight) IN
       /\ pc' = at.pc /\ grp' = at.grp /\ it' = at.it /\ err' = at.err
       /\ weight' = at.weight
       /\ stage' = IF at.pc = "idle" THEN 0 ELSE 1
    /\ done' = NoPasses
    /\ Quiet
    /\ UNCHANGED <<scores, original_poses, relaxed_poses, phospho_poses,
                   errors, cloned, local>>

\* ------------------------------------------------------- interface analysis
\* get_interactions(pose, chain_id): the residues of the chain in contact
\* with another chain, a value of the conformation
Interactions(p, chain) == <<"contacts", p.file, p.chi, p.bb, chain>>

\* len of that ResidueVector
Count(v) == <<"len", v>>

\* _get_median_interface_bfactor(pose, residues)
Median(p, res1, res2) == <<"median", p.file, res1, res2>>

RanksLoaded(df, group) ==
    \A i \in 1..Len(df.rows) : df.rows[i]["rank"] \in DOMAIN group

\* find_interface_residues(): the exception raised and the frame left
find_interface_residues(df, relaxed) ==
    IF "N_interchain_residues_1" \in df.cols
    THEN [raised |-> "none", frame |-> df]
    ELSE IF DOMAIN relaxed = {}
    THEN [raised |-> "AssertionError", frame |-> df]
    ELSE IF 1 \notin DOMAIN relaxed
    THEN [raised |-> "KeyError", frame |-> df]
    ELSE IF ~(relaxed[1].chains > 1)
    THEN [raised |-> "AssertionError", frame |-> df]
    ELSE IF ~RanksLoaded(df, relaxed)
    THEN [raised |-> "KeyError", frame |-> df]
    ELSE LET i1 == [r \in RanksOf(df) |-> Interactions(relaxed[r], 1)]
             i2 == [r \in RanksOf(df) |-> Interactions(relaxed[r], 2)]
             n1 == [r \in RanksOf(df) |-> Count(i1[r])]
             n2 == [r \in RanksOf(df) |-> Count(i2[r])]
         IN  [raised |-> "none",
              frame  |-> WithColumn(WithColumn(WithColumn(WithColumn(df,
                            "interchain_residues_1", i1),
                            "interchain_residues_2", i2),
                            "N_interchain_residues_1", n1),
                            "N_interchain_residues_2", n2)]

FindInterfaceResidues ==
    /\ Idle
    /\ op' = "find_interface_residues"
    /\ calls' = calls + 1
    /\ LET res == find_interface_residues(scores, relaxed_poses) IN
       /\ scores' = res.frame
       /\ err' = res.raised
    /\ Quiet
    /\ UNCHANGED <<original_poses, relaxed_poses, phospho_poses, errors, pc,
                   loopvars, cloned, callvars>>

\* get_median_interface_bfactors(): find_interface_residues, then one median
\* per row, of the pose of the row's rank
get_median_interface_bfactors(df, relaxed) ==
    LET found == find_interface_residues(df, relaxed) IN
    IF found.raised # "none" THEN found
    ELSE IF ~RanksLoaded(found.frame, relaxed)
    THEN [raised |-> "KeyError", frame |-> found.frame]
    ELSE found

InterfaceColumns ==
    <<"median_interface_pLDDT", "complex_energy", "separated_interface_energy",
      "complexed_sasa", "crossterm_interface_energy", "interface_dG",
      "interface_delta_sasa">>

\* the value of a column of newdata for the pose p
InterfaceValue(column, df, r, p) ==
    IF column = "median_interface_pLDDT"
    THEN LET row == df.rows[RowOfRank(df, r)]
         IN  Median(p, row["interchain_residues_1"], row["interchain_residues_2"])
    ELSE <<column, p.file, p.chi, p.bb>>

RECURSIVE WithInterface(_, _, _, _)
WithInterface(df, found, relaxed, k) ==
    IF k = 0 THEN df
    ELSE WithColumn(WithInterface(df, found, relaxed, k - 1),
                    InterfaceColumns[k],
                    [r \in RanksOf(df) |->
                        InterfaceValue(InterfaceColumns[k], found, r, relaxed[r])])

\* calculate_interface(interface): the medians first, then the test of dG
calculate_interface(df, relaxed) ==
    LET medians == get_median_interface_bfactors(df, relaxed) IN
    IF medians.raised # "none" THEN medians
    ELSE IF "dG" \notin medians.frame.cols THEN medians
    ELSE [raised |-> "none",
          frame  |-> WithInterface(medians.frame, medians.frame, relaxed,
                                   Len(InterfaceColumns))]

CalculateInterface ==
    /\ Idle
    /\ op' = "calculate_interface"
    /\ calls' = calls + 1
    /\ LET res == calculate_interface(scores, relaxed_poses) IN
       /\ scores' = res.frame
       /\ err' = res.raised
    /\ Quiet
    /\ UNCHANGED <<original_poses, relaxed_poses, phospho_poses, errors, pc,
                   loopvars, cloned, callvars>>

\* ------------------------------------------------------ make_phosphorylated
\* pdb_info.pdb2pose(res=r, chain='A'): the pose index of the residue of
\* that number, 0 when the chain has none
pdb2pose(pose, r) == IF r \in 1..Len(pose.res) THEN r ELSE 0

\* {k: convert(pdb_residues) for k, pdb_residues in pdb_ptms.items()}
Convert(pdb_ptms, pose) ==
    [keys |-> pdb_ptms.keys,
     val  |-> [k \in DOMAIN pdb_ptms.val |->
                 [i \in 1..Len(pdb_ptms.val[k]) |-> pdb2pose(pose, pdb_ptms.val[k][i])]]]

\* (acetylation taken as the proxy of ubiquitination)
PatchOfProxy(ptm) ==
    CASE ptm = <<"p">>      -> [patch |-> "phosphorylated", restriction |-> "none"]
      [] ptm = <<"a", "c">> -> [patch |-> "acetylated", restriction |-> "none"]
      [] ptm = <<"u", "b">> -> [patch |-> "acetylated", restriction |-> "none"]
      [] ptm = <<"m", "1">> -> [patch |-> "monomethylated", restriction |-> "LYS"]
      [] ptm = <<"m", "2">> -> [patch |-> "dimethylated", restriction |-> "LYS"]
      [] ptm = <<"m", "3">> -> [patch |-> "trimethylated", restriction |-> "LYS"]
      [] OTHER              -> [patch |-> "none", restriction |-> "none"]

\* the branches of _phospho_pose: the patch and the restriction of each
\* kind; 'ub' and a kind it does not know get no patch
PatchOf(ptm) ==
    CASE ptm = <<"p">>      -> [patch |-> "phosphorylated", restriction |-> "none"]
      [] ptm = <<"a", "c">> -> [patch |-> "acetylated", restriction |-> "none"]
      [] ptm = <<"m", "1">> -> [patch |-> "monomethylated", restriction |-> "LYS"]
      [] ptm = <<"m", "2">> -> [patch |-> "dimethylated", restriction |-> "LYS"]
      [] ptm = <<"m", "3">> -> [patch |-> "trimethylated", restriction |-> "LYS"]
      [] OTHER              -> [patch |-> "none", restriction |-> "none"]

\* the residue types f"{present_res}:{patch}" that the residue type set
\* holds, for the residues of the model
ResidueTypes ==
    {<<"SER", "phosphorylated">>, <<"LYS", "acetylated">>,
     <<"LYS", "monomethylated">>, <<"LYS", "dimethylated">>,
     <<"LYS", "trimethylated">>}

HasType(present_res, patch) ==
    present_res.patch = "none" /\ <<present_res.base, patch>> \in ResidueTypes

\* MutateResidue(target=r, new_res=new_res).apply(pose)
MutateResidue(pose, r, patch) ==
    [pose EXCEPT !.res[r] = [base |-> @.base, patch |-> patch]]

\* _apply_patch over the first n residues: the exception raised, the pose
\* as it is left and the residues mutated
RECURSIVE _apply_patch(_, _, _, _, _)
_apply_patch(pose, patch, residues, restriction, n) ==
    IF n = 0 THEN [raised |-> "none", pose |-> pose, valids |-> <<>>]
    ELSE LET sofar == _apply_patch(pose, patch, residues, restriction, n - 1)
             r == residues[n]
         IN  IF sofar.raised # "none" \/ r = 0 THEN sofar
             ELSE LET present_res == sofar.pose.res[r] IN
                  IF restriction # "none" /\ present_res # Unpatched(restriction)
                  THEN sofar
                  ELSE IF ~HasType(present_res, patch)
                  THEN [sofar EXCEPT !.raised = "RuntimeError"]
                  ELSE [raised |-> "none",
                        pose   |-> MutateResidue(sofar.pose, r, patch),
                        valids |-> Append(sofar.valids, r)]

\* the loop of _phospho_pose over the first k kinds of modifications
RECURSIVE Modified(_, _, _)
Modified(pose, modifications, k) ==
    IF k = 0 THEN [raised |-> "none", pose |-> pose, valids |-> <<>>]
    ELSE LET sofar == Modified(pose, modifications, k - 1)
             ptm == modifications.keys[k]
             how == PatchOf(ptm)
         IN  IF sofar.raised # "none" \/ how.patch = "none" THEN sofar
             ELSE LET v == _apply_patch(sofar.pose, how.patch,
                                        modifications.val[ptm], how.restriction,
                                        Len(modifications.val[ptm]))
                  IN  [raised |-> v.raised, pose |-> v.pose,
                       valids |-> sofar.valids \o v.valids]

\* _phospho_pose: the patches, then one FastRelax of the neighbourhood of
\* the mutated residues when there is any
_phospho_pose(pose, modifications) ==
    LET m == Modified(pose, modifications, Len(modifications.keys)) IN
    IF m.raised # "none" \/ m.valids = <<>> THEN m
    ELSE [m EXCEPT !.pose.nbr = @ + 1]

\* self.original_poses[1].pdb_info(), the conversion, the weight, the
\* generator of 'relaxed'
MakePhosphorylatedBegin(pdb_ptms) ==
    /\ Idle
    /\ op' = "make_phosphorylated"
    /\ calls' = calls + 1
    /\ stage' = 0
    /\ done' = NoPasses
    /\ grp' = "relaxed"
    /\ IF 1 \notin DOMAIN original_poses
       THEN /\ pc' = "idle" /\ err' = "KeyError"
            /\ UNCHANGED <<it, weight, local>>
       ELSE /\ weight' = 1
            /\ IF ~GroupLoaded("relaxed")
               THEN /\ pc' = "idle" /\ err' = "AssertionError"
                    /\ UNCHANGED <<it, local>>
               ELSE /\ pc' = "make_phosphorylated" /\ err' = "none"
                    /\ it' = 1
                    /\ local' = Convert(pdb_ptms, original_poses[1])
    /\ Quiet
    /\ UNCHANGED <<scores, original_poses, relaxed_poses, phospho_poses,
                   errors, cloned>>

\* self.phospho_poses[index] = pose.clone(); self._phospho_pose(...)
MakePhosphorylatedStep ==
    /\ pc = "make_phosphorylated"
    /\ it <= Len(errors)
    /\ LET index == errors[it] IN
       IF Missing(Poses(grp), errors, it)
       THEN /\ pc' = "idle" /\ err' = "KeyError" /\ local' = EmptyDict
            /\ UNCHANGED <<original_poses, relaxed_poses, phospho_poses, it>>
       ELSE LET target == Clone(Triple(Poses(grp), index).pose)
                res == _phospho_pose(target, local)
            IN  /\ phospho_poses' =
                      InPlace(Put(phospho_poses, index, target), target, res.pose)
                /\ relaxed_poses' = InPlace(relaxed_poses, target, res.pose)
                /\ original_poses' = InPlace(original_poses, target, res.pose)
                /\ IF res.raised = "none"
                   THEN it' = it + 1 /\ UNCHANGED <<pc, err, local>>
                   ELSE /\ pc' = "idle" /\ err' = res.raised
                        /\ local' = EmptyDict
                        /\ UNCHANGED it
    /\ Quiet
    /\ UNCHANGED <<scores, errors, op, grp, calls, cloned, weight, stage, done>>

MakePhosphorylatedEnd ==
    /\ End("make_phosphorylated")
    /\ pc' = "idle"
    /\ local' = EmptyDict
    /\ Quiet
    /\ UNCHANGED <<scores, original_poses, relaxed_poses, phospho_poses,
                   errors, op, err, loopvars, calls, cloned, weight, stage, done>>

\* ----------------------------------------- _generator_poses, by the caller
\* generator = self._generator_poses(groupname), by the caller
GeneratorCall(g) ==
    /\ Idle
    /\ op' = "_generator_poses"
    /\ grp' = g
    /\ calls' = calls + 1
    /\ IF GroupLoaded(g)
       THEN /\ gen' = [grp |-> g, pos |-> 1]
            /\ yielded' = <<>>
            /\ err' = "none"
       ELSE /\ err' = "AssertionError"
            /\ UNCHANGED <<gen, yielded>>
    /\ UNCHANGED <<listing, hasSettings, settings, nchains, csv, ptmvars,
                   bpvars, budget, objvars, pc, warned, it, arg, histvars, callvars>>

\* next(generator), between two calls of the caller: the triple of the next
\* key of errors, the pose read from the group as it is now
GeneratorNext ==
    /\ pc = "idle"
    /\ gen.pos >= 1
    /\ op' = "next"
    /\ IF gen.pos > Len(errors)
       THEN /\ err' = "StopIteration"
            /\ gen' = NoGenerator
            /\ UNCHANGED yielded
       ELSE IF Missing(Poses(gen.grp), errors, gen.pos)
       THEN /\ err' = "KeyError"
            /\ gen' = NoGenerator
            /\ UNCHANGED yielded
       ELSE /\ err' = "none"
            /\ yielded' = Append(yielded, Triple(Poses(gen.grp), errors[gen.pos]))
            /\ gen' = [gen EXCEPT !.pos = @ + 1]
    /\ UNCHANGED <<listing, hasSettings, settings, nchains, csv, ptmvars,
                   bpvars, budget, objvars, pc, warned, loopvars, arg, calls, histvars,
                   callvars>>

\* ------------------------------------------------------------- persistence
\* a directory exists once something was written into it
DirExists(d) == d = "colab" \/ csv[d] # <<>> \/ listing[d] # <<>>

\* pose.dump_pdb(path): the conformation, without the constraints
DumpFile(i, r, g, p) ==
    [kind |-> "dump", rank |-> r, tag |-> g, model |-> i, seed |-> 0,
     body |-> [chi |-> p.chi, bb |-> p.bb]]

SameName(f, r, g) == f.kind = "dump" /\ f.rank = r /\ f.tag = g

\* a file of that name is overwritten, a new one is listed last
WriteDump(files, r, g, p) ==
    IF \E j \in 1..Len(files) : SameName(files[j], r, g)
    THEN [j \in 1..Len(files) |->
            IF SameName(files[j], r, g) THEN DumpFile(j, r, g, p) ELSE files[j]]
    ELSE Append(files, DumpFile(Len(files) + 1, r, g, p))

\* the loop of dump_pdbs over the generator of the group, from key i on
RECURSIVE dump_pdbs(_, _, _, _, _)
dump_pdbs(files, group, g, keys, i) ==
    IF i > Len(keys) THEN [raised |-> "none", files |-> files]
    ELSE IF keys[i] \notin DOMAIN group
    THEN [raised |-> "KeyError", files |-> files]
    ELSE dump_pdbs(WriteDump(files, keys[i], g, group[keys[i]]), group, g,
                   keys, i + 1)

\* dump(folder): scores.csv, the relaxed group, then
\* open(os.path.join(folder, 'errors.p', 'w')), the path folder/errors.p/w
\* opened for reading, which does not exist
Dump(d) ==
    /\ Idle
    /\ op' = "dump"
    /\ arg' = d
    /\ calls' = calls + 1
    /\ csv' = [csv EXCEPT ![d] = <<scores>>]
    /\ IF ~GroupLoaded("relaxed")
       THEN /\ err' = "AssertionError"
            /\ UNCHANGED <<listing, dumped>>
       ELSE LET res == dump_pdbs(listing[d], relaxed_poses, "relaxed", errors, 1) IN
            /\ listing' = [listing EXCEPT ![d] = res.files]
            /\ dumped' = [dumped EXCEPT ![d] = <<relaxed_poses>>]
            /\ err' = IF res.raised # "none" THEN res.raised
                      ELSE "FileNotFoundError"
    /\ UNCHANGED <<hasSettings, settings, nchains, ptmvars, bpvars, uservars,
                   objvars, pc, warned, loopvars, cloned, callvars>>

\* dump_pdbs(groupname, folder), by the caller
DumpPdbs(g, d) ==
    /\ Idle
    /\ op' = "dump_pdbs"
    /\ arg' = d
    /\ grp' = g
    /\ calls' = calls + 1
    /\ IF ~GroupLoaded(g)
       THEN /\ err' = "AssertionError"
            /\ UNCHANGED listing
       ELSE LET res == dump_pdbs(listing[d], Poses(g), g, errors, 1) IN
            /\ listing' = [listing EXCEPT ![d] = res.files]
            /\ err' = res.raised
    /\ UNCHANGED <<hasSettings, settings, nchains, csv, ptmvars, bpvars,
                   uservars, objvars, pc, warned, it, histvars, callvars>>

\* '.pdb' in filename
IsPdbName(f) == f.kind \in {"model", "dump", "ranked"}

\* re.search(r'rank(\d+)\.pdb', filename) is not None
RankerMatches(f) == f.kind = "ranked"

\* load(folder, load_poses): the exception it ends with.  The constructor
\* runs on the folder, scores.csv is read, every .pdb name goes through
\* ranker, and the last step opens folder/errors.p/r, which does not exist.
load(d) ==
    IF ~DirExists(d) THEN "FileNotFoundError"
    ELSE LET built == make_AF2_dataframe(d, listing[d]) IN
    IF built.raised # "none" THEN built.raised
    ELSE LET enriched == _add_settings(built.frame, hasSettings[d], settings) IN
    IF enriched.raised # "none" THEN enriched.raised
    ELSE IF csv[d] = <<>> THEN "FileNotFoundError"
    ELSE IF \E i \in 1..Len(listing[d]) :
               IsPdbName(listing[d][i]) /\ ~RankerMatches(listing[d][i])
    THEN "AttributeError"
    ELSE "FileNotFoundError"

Load(d) ==
    /\ Idle
    /\ op' = "load"
    /\ arg' = d
    /\ calls' = calls + 1
    /\ err' = load(d)
    /\ warned' = (warned \/ (DirExists(d) /\ ~hasSettings[d]
                             /\ make_AF2_dataframe(d, listing[d]).raised = "none"))
    /\ UNCHANGED <<fsvars, objvars, pc, loopvars, histvars, callvars>>

\* ------------------------------------------------- directories to start from
Unrefined == [chi |-> 0, bb |-> 0]

ModelFile(i, r, t) ==
    [kind |-> "model", rank |-> r, tag |-> t, model |-> i, seed |-> 0,
     body |-> Unrefined]

OtherFile(i) ==
    [kind |-> "other", rank |-> 0, tag |-> "", model |-> i, seed |-> 0,
     body |-> Unrefined]

ModelShapes == Ranks \X {"relaxed", "unrelaxed"}

\* the listing of the files of the given shapes
ListingOf(sh) ==
    [i \in 1..Len(sh) |-> IF sh[i][1] = 0 THEN OtherFile(i)
                          ELSE ModelFile(i, sh[i][1], sh[i][2])]

\* line i of settings.txt, for rank r:
\*   ..._rank_<r>_model_<i> pLDDT:<90-r>.<i> pTMscore:0.<r>
SettingsLine(i, r) ==
    [rank |-> r, pLDDT |-> <<90 - r, i>>, pTMscore |-> <<0, r>>]

\* settings.txt as ColabFold writes it, one line per rank in rank order,
\* cut after the line of any of the first n ranks
SettingsFiles(n) ==
    {[i \in 1..k |-> SettingsLine(i, i)] : k \in 0..(IF n < MaxRank THEN n ELSE MaxRank)}

AnyShapes == ModelShapes \cup {<<0, "">>}

InitObject ==
    /\ folder = "none"
    /\ load_poses = FALSE
    /\ scores = EmptyFrame
    /\ original_poses = NoPoses
    /\ relaxed_poses = NoPoses
    /\ phospho_poses = NoPoses
    /\ errors = <<>>
    /\ pc = "new"
    /\ op = "none"
    /\ err = "none"
    /\ warned = FALSE
    /\ grp = "none"
    /\ it = 0
    /\ arg = "none"
    /\ calls = 0
    /\ cloned = [r \in Ranks |-> 0]
    /\ dumped = [d \in Dirs |-> <<>>]
    /\ stage = 0
    /\ done = NoPasses
    /\ local = EmptyDict
    /\ gen = NoGenerator
    /\ yielded = <<>>

NoAnnotations ==
    /\ tokens = <<>>
    /\ raw = <<>>
    /\ minimum = 1
    /\ maximum = 0 - 1
    /\ ptms = EmptyDict
    /\ parsed = "no"

NoBlueprint == rows = <<>>

\* ------------------------------------- the catalog: build and enrichment
InitCatalog ==
    /\ \E k \in 0..MaxFiles : \E sh \in [1..k -> AnyShapes] :
          listing = [d \in Dirs |-> IF d = "colab" THEN ListingOf(sh) ELSE <<>>]
    /\ \E present \in BOOLEAN :
          /\ hasSettings = [d \in Dirs |-> d = "colab" /\ present]
          /\ settings \in (IF present THEN SettingsFiles(MaxLines) ELSE {<<>>})
    /\ nchains = 2
    /\ csv = [d \in Dirs |-> <<>>]
    /\ weight = 0
    /\ budget = 0
    /\ InitObject
    /\ NoAnnotations
    /\ NoBlueprint

NextCatalog ==
    \/ Construct("colab")
    \/ AddSettings

SpecCatalog == InitCatalog /\ [][NextCatalog]_vars

\* ------------------------------------------------------------ the analyser
\* self.pose_groupnames
Groups == {"relaxed", "original", "phospho"}

\* annotations as parse_phosphosite returns them:
\*   {m1: [2, 3], ub: [2]}   {p: [9]}   {p: [3]}
AnnotationChoices ==
    {DictSet(DictSet(EmptyDict, <<"m", "1">>, <<2, 3>>), <<"u", "b">>, <<2>>),
     DictSet(EmptyDict, <<"p">>, <<9>>),
     DictSet(EmptyDict, <<"p">>, <<3>>)}

PipelineShapes == ((1..MaxModels) \X {"unrelaxed"}) \cup {<<0, "">>}

\* a directory of one unrelaxed model per rank, in any order, for some of
\* the ranks, with or without a file that is no structure
Directory ==
    /\ \E k \in 0..MaxModels : \E sh \in [1..k -> PipelineShapes] :
          /\ \A i, j \in 1..k : sh[i][1] = sh[j][1] => i = j
          /\ listing = [d \in Dirs |-> IF d = "colab" THEN ListingOf(sh) ELSE <<>>]
    /\ \E present \in BOOLEAN :
          /\ hasSettings = [d \in Dirs |-> d = "colab" /\ present]
          /\ settings = IF present
                        THEN [i \in 1..MaxModels |-> SettingsLine(i, i)]
                        ELSE <<>>
    /\ nchains \in {1, 2}
    /\ csv = [d \in Dirs |-> <<>>]
    /\ weight \in {0, 1}
    /\ InitObject
    /\ NoAnnotations
    /\ NoBlueprint

\* every method, over a few calls
Init == Directory /\ budget = MaxSteps

Next ==
    \/ Construct("colab")
    \/ AddSettings
    \/ \E lp \in BOOLEAN : LoadPoses(lp)
    \/ SidechainRelaxBegin
    \/ SidechainRelaxStep
    \/ SidechainRelaxEnd
    \/ RelaxBegin
    \/ RelaxStep
    \/ RelaxEnd
    \/ \E g \in Groups : ConstrainBegin(g)
    \/ ConstrainStep
    \/ ConstrainEnd
    \/ FindInterfaceResidues
    \/ CalculateInterface
    \/ \E d \in Dirs : Dump(d)
    \/ \E d \in Dirs : Load(d)
    \/ ConstrainAndRelax
    \/ \E a \in AnnotationChoices : MakePhosphorylatedBegin(a)
    \/ MakePhosphorylatedStep
    \/ MakePhosphorylatedEnd
    \/ \E g \in Groups : DumpPdbs(g, "out")
    \/ \E g \in Groups : GeneratorCall(g)
    \/ GeneratorNext

Spec == Init /\ [][Next]_vars

\* ----------------------------------------- refinement, then dump and load
InitStore == Directory /\ budget = MaxCalls

NextStore ==
    \/ Construct("colab")
    \/ AddSettings
    \/ \E lp \in BOOLEAN : LoadPoses(lp)
    \/ SidechainRelaxBegin
    \/ SidechainRelaxStep
    \/ SidechainRelaxEnd
    \/ RelaxBegin
    \/ RelaxStep
    \/ RelaxEnd
    \/ \E d \in Dirs : Dump(d)
    \/ \E d \in Dirs : Load(d)

SpecStore == InitStore /\ [][NextStore]_vars

\* ------------------------------ a generator in the hands of the caller
InitGenerator == Directory /\ budget = MaxCalls

NextGenerator ==
    \/ Construct("colab")
    \/ AddSettings
    \/ \E lp \in BOOLEAN : LoadPoses(lp)
    \/ SidechainRelaxBegin
    \/ SidechainRelaxStep
    \/ SidechainRelaxEnd
    \/ \E g \in Groups : ConstrainBegin(g)
    \/ ConstrainStep
    \/ ConstrainEnd
    \/ \E g \in Groups : GeneratorCall(g)
    \/ GeneratorNext

SpecGenerator == InitGenerator /\ [][NextGenerator]_vars

\* ------------------------------------- make_phosphorylated, by annotation
\* annotations as parse_phosphosite returns them, of every kind, on residues
\* of each identity, on a number the chain does not have, and twice on one
\* residue
ModificationChoices ==
    {DictSet(DictSet(DictSet(DictSet(EmptyDict,
         <<"p">>, <<9, 1>>), <<"m", "1">>, <<1, 2, 3>>),
         <<"u", "b">>, <<3>>), <<"g", "l">>, <<3>>),
     DictSet(DictSet(DictSet(EmptyDict,
         <<"u", "b">>, <<2>>), <<"m", "1">>, <<1>>), <<"p">>, <<9>>),
     DictSet(DictSet(EmptyDict, <<"a", "c">>, <<2>>), <<"m", "2">>, <<2, 3>>),
     DictSet(DictSet(EmptyDict, <<"m", "3">>, <<2>>), <<"p">>, <<1>>),
     DictSet(DictSet(EmptyDict, <<"m", "2">>, <<2>>), <<"g", "l">>, <<1>>),
     DictSet(EmptyDict, <<"p">>, <<3>>),
     DictSet(EmptyDict, <<"p">>, <<1, 1>>),
     EmptyDict}

InitPhospho == Directory /\ budget = MaxSteps

NextPhospho ==
    \/ Construct("colab")
    \/ AddSettings
    \/ \E lp \in BOOLEAN : LoadPoses(lp)
    \/ SidechainRelaxBegin
    \/ SidechainRelaxStep
    \/ SidechainRelaxEnd
    \/ \E a \in ModificationChoices : MakePhosphorylatedBegin(a)
    \/ MakePhosphorylatedStep
    \/ MakePhosphorylatedEnd

SpecPhospho == InitPhospho /\ [][NextPhospho]_vars

\* -------------------------------------------------------- parse_phosphosite
Digit == <<"0", "1", "2", "3", "4", "5", "6", "7", "8", "9">>

IsDigit(c) == \E d \in 1..10 : Digit[d] = c

\* \w
IsWord(c) == IsDigit(c) \/ c \in {"S", "T", "K", "Y", "p", "m", "a", "c", "_"}

\* str(n), n > 0
RECURSIVE Decimal(_)
Decimal(n) ==
    IF n < 10 THEN <<Digit[n + 1]>> ELSE Append(Decimal(n \div 10), Digit[(n % 10) + 1])

\* int(digits)
RECURSIVE ToInt(_)
ToInt(digits) ==
    IF digits = <<>> THEN 0
    ELSE 10 * ToInt(SubSeq(digits, 1, Len(digits) - 1))
         + ((CHOOSE d \in 1..10 : Digit[d] = digits[Len(digits)]) - 1)

\* the text of one annotation of the table, such as S45-p; a token whose
\* number is 0 has no number, such as Y-p
TokenText(t) ==
    <<t.resn>> \o (IF t.resi = 0 THEN <<>> ELSE Decimal(t.resi)) \o <<"-">> \o t.mod

RECURSIVE Pasted(_)
Pasted(ts) ==
    IF ts = <<>> THEN <<>>
    ELSE IF Len(ts) = 1 THEN TokenText(ts[1])
    ELSE TokenText(ts[1]) \o <<" ">> \o Pasted(Tail(ts))

\* the end of the longest run of digits, and of word characters, from i
\* on; i - 1 when there is none
RECURSIVE DigitsEnd(_, _)
DigitsEnd(text, i) ==
    IF i <= Len(text) /\ IsDigit(text[i]) THEN DigitsEnd(text, i + 1) ELSE i - 1

RECURSIVE WordEnd(_, _)
WordEnd(text, i) ==
    IF i <= Len(text) /\ IsWord(text[i]) THEN WordEnd(text, i + 1) ELSE i - 1

\* the match of '(\w)(\d+)\-(\w+)' that starts at i: the index of its last
\* character, 0 when there is none.  \d+ and \w+ are greedy; a shorter run
\* of digits is followed by a digit, never by the hyphen.
MatchEnd(text, i) ==
    IF ~IsWord(text[i]) THEN 0
    ELSE LET j == DigitsEnd(text, i + 1) IN
         IF j < i + 1 \/ j + 1 > Len(text) \/ text[j + 1] # "-" THEN 0
         ELSE LET k == WordEnd(text, j + 2) IN
              IF k < j + 2 THEN 0 ELSE k

\* re.findall('(\w)(\d+)\-(\w+)', raw), from i on
RECURSIVE FindAll(_, _)
FindAll(text, i) ==
    IF i > Len(text) THEN <<>>
    ELSE LET k == MatchEnd(text, i) IN
         IF k = 0 THEN FindAll(text, i + 1)
         ELSE LET j == DigitsEnd(text, i + 1) IN
              <<[resn |-> text[i], resi |-> SubSeq(text, i + 1, j),
                 mod |-> SubSeq(text, j + 2, k)]>> \o FindAll(text, k + 1)

\* '-p' in raw
HasMarker(text) ==
    \E i \in 1..(Len(text) - 1) : text[i] = "-" /\ text[i + 1] = "p"

\* if maximum < 1: maximum = float('nan')
UpperBound(m) == IF m < 1 THEN NaN ELSE m

\* (the upper bound of the window forgotten)
OutsideWindowBelowOnly(resi, lo, hi) == resi < lo

\* int(resi) < minimum or int(resi) > maximum, false of a nan maximum
OutsideWindow(resi, lo, hi) == resi < lo \/ (hi # NaN /\ resi > hi)

\* ptms[mod].append(int(resi)) for the matches in turn
RECURSIVE Collect(_, _, _, _)
Collect(matches, lo, hi, n) ==
    IF n = 0 THEN EmptyDict
    ELSE LET sofar == Collect(matches, lo, hi, n - 1)
             m == matches[n]
         IN  IF OutsideWindow(ToInt(m.resi), lo, hi) THEN sofar
             ELSE DictSet(sofar, m.mod,
                          Append(IF HasKey(sofar, m.mod) THEN sofar.val[m.mod]
                                 ELSE <<>>, ToInt(m.resi)))

parse_phosphosite(text, lo, hi) ==
    IF ~HasMarker(text) THEN [raised |-> "AssertionError", ptms |-> EmptyDict]
    ELSE LET matches == FindAll(text, 1)
         IN  [raised |-> "none",
              ptms |-> Collect(matches, lo, UpperBound(hi), Len(matches))]

ParsePhosphosite ==
    /\ parsed = "no"
    /\ LET res == parse_phosphosite(raw, minimum, maximum) IN
       /\ ptms' = res.ptms
       /\ parsed' = IF res.raised = "none" THEN "returned" ELSE res.raised
    /\ UNCHANGED <<listing, hasSettings, settings, nchains, csv, tokens, raw,
                   minimum, maximum, objvars, pc, op, err, warned, loopvars,
                   arg, calls, histvars, callvars, uservars, bpvars>>

Token(resn, resi, mod) == [resn |-> resn, resi |-> resi, mod |-> mod]

\* S45-p  T99-p  K12-m1  K7-ac  Y-p
TokenChoices ==
    {Token("S", 45, <<"p">>), Token("T", 99, <<"p">>),
     Token("K", 12, <<"m", "1">>), Token("K", 7, <<"a", "c">>),
     Token("Y", 0, <<"p">>)}

InitPTM ==
    /\ \E k \in 0..MaxTokens : tokens \in [1..k -> TokenChoices]
    /\ raw = Pasted(tokens)
    /\ minimum \in {1, 10}
    /\ maximum \in {0 - 1, 50}
    /\ ptms = EmptyDict
    /\ parsed = "no"
    /\ listing = [d \in Dirs |-> <<>>]
    /\ hasSettings = [d \in Dirs |-> FALSE]
    /\ settings = <<>>
    /\ nchains = 2
    /\ csv = [d \in Dirs |-> <<>>]
    /\ weight = 0
    /\ budget = 0
    /\ InitObject
    /\ NoBlueprint

NextPTM == ParsePhosphosite

SpecPTM == InitPTM /\ [][NextPTM]_vars

\* ------------------------------------------------------ the blueprint editor
\* (src/blueprint_maker/_subscripted.py)  A row is the list [index, residue,
\* secondary structure] with, once set, an instruction as its fourth entry;
\* a deleted row is the empty list, still in self.rows.  A Python value that
\* is compared is held with its type.
PyInt(n) == [type |-> "int", val |-> n]

PyList(s) == [type |-> "list", val |-> s]

PyStr(s) == [type |-> "str", val |-> s]

\* __iter__: filter(len, self.rows), as the positions it keeps, in order
Kept(rws) == {p \in 1..Len(rws) : Len(rws[p]) > 0}

\* the position in self.rows of the row __getitem__(idx) returns, the first
\* non-empty one with int(row[0]) == idx; 0 when it raises ValueError
__getitem__(rws, idx) ==
    LET hits == {p \in Kept(rws) : rws[p][1] = idx} IN
    IF hits = {} THEN 0 ELSE CHOOSE p \in hits : \A q \in hits : p <= q

\* the i that enumerate(self) gives the row at position p
Enumerated(rws, p) == Cardinality({q \in Kept(rws) : q < p})

\* self.get_ss(idx), of the class the editor is mixed into
get_ss(idx) == "ss"

\* _setrow(row, value): del row[2:], then the two appends
_setrow(row, value) ==
    SubSeq(row, 1, IF Len(row) < 2 THEN Len(row) ELSE 2)
        \o <<get_ss(row[1]), value>>

\* list.insert(k, x), k counted from 0: at the end when k is past it
ListInsert(s, k, x) ==
    LET at == IF k > Len(s) THEN Len(s) ELSE k
    IN  SubSeq(s, 1, at) \o <<x>> \o SubSeq(s, at + 1, Len(s))

\* max(): the list of the indices of the non-empty rows
max(rws) ==
    LET kept == SelectSeq(rws, LAMBDA row : Len(row) > 0)
    IN  PyList([i \in 1..Len(kept) |-> kept[i][1]])

\* a >= b: defined between two numbers, TypeError between a list and a number
GreaterEqual(a, b) ==
    IF a.type = "int" /\ b.type = "int"
    THEN [raised |-> "none", val |-> a.val >= b.val]
    ELSE [raised |-> "TypeError", val |-> FALSE]

\* the homogenised value: a str is one value, a list is its values
Homogenise(value) == IF value.type = "str" THEN <<value.val>> ELSE value.val

\* the loop over the first n values: self.rows.insert(i + j, inserendum),
\* or i + j + 1 when not before, j from 0
RECURSIVE Inserted(_, _, _, _, _)
Inserted(rws, i, values, before, n) ==
    IF n = 0 THEN rws
    ELSE ListInsert(Inserted(rws, i, values, before, n - 1),
                    i + (n - 1) + (IF before THEN 0 ELSE 1),
                    <<0, "X", "D", values[n]>>)

\* the loop 'for i in (idx, other_idx)' over the first n of them: a row still
\* of three entries is set to NATAA; a missing index raises ValueError
RECURSIVE Wobbled(_, _, _)
Wobbled(rws, sides, n) ==
    IF n = 0 THEN [raised |-> "none", rows |-> rws]
    ELSE LET sofar == Wobbled(rws, sides, n - 1)
             p == __getitem__(sofar.rows, sides[n])
         IN  IF sofar.raised # "none" THEN sofar
             ELSE IF p = 0 THEN [sofar EXCEPT !.raised = "ValueError"]
             ELSE IF Len(sofar.rows[p]) <= 3
             THEN [sofar EXCEPT !.rows[p] = _setrow(@, "NATAA")]
             ELSE sofar

\* insert(idx, value, before): the exception raised and the rows left
insert(rws, idx, value, before) ==
    LET values == Homogenise(value)
        p == __getitem__(rws, idx)
    IN  IF p = 0 THEN [raised |-> "ValueError", rows |-> rws]
        ELSE LET now == Inserted(rws, Enumerated(rws, p), values, before,
                                 Len(values))
                 more == IF before THEN [raised |-> "none", val |-> FALSE]
                         ELSE GreaterEqual(max(now), PyInt(idx + 1))
             IN  IF more.raised # "none"
                 THEN [raised |-> more.raised, rows |-> now]
                 ELSE LET other_idx == IF before THEN idx - 1
                                       ELSE IF more.val THEN idx + 1 ELSE idx
                      IN  Wobbled(now, <<idx, other_idx>>, 2)

\* insert_before(idx, value) and insert_after(idx, value), by the caller
Insert(idx, value, before) ==
    /\ calls < budget
    /\ op' = IF before THEN "insert_before" ELSE "insert_after"
    /\ calls' = calls + 1
    /\ LET res == insert(rows, idx, value, before) IN
       /\ rows' = res.rows
       /\ err' = res.raised
    /\ UNCHANGED <<listing, hasSettings, settings, nchains, csv, ptmvars,
                   budget, gen, yielded, objvars, pc, warned, loopvars, arg,
                   histvars, callvars>>

\* del blueprint[idx], by the caller: the row is emptied where it is
DelItem(idx) ==
    /\ calls < budget
    /\ op' = "__delitem__"
    /\ calls' = calls + 1
    /\ LET p == __getitem__(rows, idx) IN
       IF p = 0
       THEN err' = "ValueError" /\ UNCHANGED rows
       ELSE err' = "none" /\ rows' = [rows EXCEPT ![p] = <<>>]
    /\ UNCHANGED <<listing, hasSettings, settings, nchains, csv, ptmvars,
                   budget, gen, yielded, objvars, pc, warned, loopvars, arg,
                   histvars, callvars>>

\* the indices a caller names: those of the pose, an inserted row's 0, and
\* one past the end
Indices == 0..(MaxRows + 1)

\* an instruction, or a list of instructions
ValueChoices ==
    {PyStr("PIKAA G"), PyList(<<"PIKAA G">>), PyList(<<"PIKAA G", "ALLAA">>)}

\* the blueprint of a pose of up to MaxRows residues, one row a residue
InitBlueprint ==
    /\ \E n \in 1..MaxRows : rows = [i \in 1..n |-> <<i, "A", ".">>]
    /\ budget = MaxCalls
    /\ listing = [d \in Dirs |-> <<>>]
    /\ hasSettings = [d \in Dirs |-> FALSE]
    /\ settings = <<>>
    /\ nchains = 2
    /\ csv = [d \in Dirs |-> <<>>]
    /\ weight = 0
    /\ InitObject
    /\ NoAnnotations

NextBlueprint ==
    \/ \E idx \in Indices : DelItem(idx)
    \/ \E idx \in Indices : \E value \in ValueChoices : \E before \in BOOLEAN :
          Insert(idx, value, before)

SpecBlueprint == InitBlueprint /\ [][NextBlueprint]_vars

\* ---------------------------------------------------- claims on the catalog
Built == pc # "new" /\ err # "AttributeError"

Colab == listing["colab"]

ModelFilesOf(r) ==
    {i \in 1..Len(Colab) : Colab[i].kind = "model" /\ Colab[i].rank = r}

RelaxedFilesOf(r) == {i \in ModelFilesOf(r) : Colab[i].tag = "relaxed"}

RowsOf(r) == {i \in 1..Len(scores.rows) : scores.rows[i]["rank"] = r}

\* C4: when a rank has two matching files, one relaxed and one not, the
\* catalog row of the rank is the relaxed file, in either enumeration order
\* (and with further files of the rank, the first relaxed one).
C4_RelaxedKept ==
    Built =>
        \A r \in Ranks :
            RelaxedFilesOf(r) # {} =>
                \E i \in RowsOf(r) :
                    /\ scores.rows[i]["relaxed"]
                    /\ scores.rows[i]["name"] \in RelaxedFilesOf(r)
                    /\ \A j \in RelaxedFilesOf(r) : scores.rows[i]["name"] <= j

\* both orders in one directory: rank 1 relaxed first, rank 2 unrelaxed first
C4_Witness ==
    /\ pc = "built"
    /\ Len(Colab) = 4
    /\ ModelFilesOf(1) = {1, 2} /\ RelaxedFilesOf(1) = {1}
    /\ ModelFilesOf(2) = {3, 4} /\ RelaxedFilesOf(2) = {4}
    /\ \E i \in RowsOf(1) : scores.rows[i]["name"] = 1
    /\ \E i \in RowsOf(2) : scores.rows[i]["name"] = 4

\* C6: the rank values of the rows of the catalog are pairwise distinct,
\* whatever the listing.
C6_RanksDistinct ==
    Built =>
        \A i, j \in 1..Len(scores.rows) :
            scores.rows[i]["rank"] = scores.rows[j]["rank"] => i = j

C6_Witness ==
    /\ pc = "built"
    /\ Len(scores.rows) = 2
    /\ \E r \in Ranks : Cardinality(ModelFilesOf(r)) = 3

\* the last line of settings.txt that is about rank r
LinesOf(r) == {i \in 1..Len(settings) : settings[i].rank = r}

LastLineOf(r) == CHOOSE i \in LinesOf(r) : \A j \in LinesOf(r) : j <= i

\* the directory of the scenario: ranks 1, 2, 3, rank 2 twice
Scenario ==
    /\ Len(Colab) = 4
    /\ \A i \in 1..4 : Colab[i].kind = "model"
    /\ Cardinality(ModelFilesOf(1)) = 1
    /\ Cardinality(ModelFilesOf(3)) = 1
    /\ Cardinality(ModelFilesOf(2)) = 2 /\ Cardinality(RelaxedFilesOf(2)) = 1

\* C7: with settings.txt present, enrichment keeps the rows of the built
\* catalog and their values (3 rows in the scenario), gives a row whose rank
\* has a line the confidence and ptm-score of that line, and gives a row
\* whose rank has no line NaN in both columns.
C7_LeftJoin ==
    pc = "enriched" =>
        LET before == make_AF2_dataframe("colab", Colab).frame IN
        /\ Len(scores.rows) = Len(before.rows)
        /\ scores.cols = before.cols \cup {"pLDDT", "pTMscore"}
        /\ \A i \in 1..Len(scores.rows) :
              /\ \A c \in before.cols : scores.rows[i][c] = before.rows[i][c]
              /\ LET r == scores.rows[i]["rank"] IN
                 IF LinesOf(r) # {}
                 THEN /\ scores.rows[i]["pLDDT"] =
                            Float(settings[LastLineOf(r)].pLDDT)
                      /\ scores.rows[i]["pTMscore"] =
                            Float(settings[LastLineOf(r)].pTMscore)
                 ELSE /\ scores.rows[i]["pLDDT"] = NaN
                      /\ scores.rows[i]["pTMscore"] = NaN
        /\ Scenario => Len(scores.rows) = 3

C7_Witness ==
    /\ pc = "enriched"
    /\ Scenario
    /\ Len(settings) = 2
    /\ Len(scores.rows) = 3
    /\ \E i \in RowsOf(3) : scores.rows[i]["pLDDT"] = NaN
    /\ \E i \in RowsOf(1) : scores.rows[i]["pLDDT"] = Tenths(89, 1)
    /\ \E i \in RowsOf(2) : scores.rows[i]["pTMscore"] = Tenths(0, 2)

\* C1: on a directory with matching structure files and no settings.txt the
\* construction does not raise; _add_settings warns and leaves pLDDT and
\* pTMscore at 100 in every row.
C1_MissingSettingsTolerated ==
    (/\ op = "__init__" /\ pc \notin {"new", "built"}
     /\ ~hasSettings["colab"]
     /\ \E i \in 1..Len(Colab) : Colab[i].kind = "model")
    => /\ pc # "failed"
       /\ warned
       /\ \A i \in 1..Len(scores.rows) :
             /\ scores.rows[i]["pLDDT"] = Sentinel
             /\ scores.rows[i]["pTMscore"] = Sentinel

\* C10: when no file of the directory matches the structure file pattern,
\* the construction does not raise: the catalog is empty and the build, the
\* enrichment and the load steps complete.
C10_EmptyCatalogTolerated ==
    (/\ op = "__init__" /\ pc # "new"
     /\ \A i \in 1..Len(Colab) : ~IsStructureName(Colab[i]))
    => /\ pc # "failed"
       /\ scores.rows = <<>>

\* ------------------------------------------------- claims on the pipeline
\* C2: calculate_interface called while the catalog has no dG column
\* returns without raising and leaves the columns and the rows of the
\* catalog as they were, whatever the pose groups hold.
C2_SilentNoOp ==
    [][(/\ op' = "calculate_interface" /\ calls' = calls + 1
        /\ "dG" \notin scores.cols)
       => (err' = "none" /\ scores' = scores)]_vars

\* the conformation a structure file holds
Conformation(p) == [chi |-> p.chi, bb |-> p.bb]

\* C3: load(folder) after dump(folder) of a populated relaxed group
\* completes and gives a relaxed group of the same ranks, each rank with
\* the structure dumped for it.
C3_RoundTrip ==
    (/\ op = "load" /\ pc = "idle" /\ arg \in Dirs
     /\ dumped[arg] # <<>>)
    => /\ err = "none"
       /\ DOMAIN relaxed_poses = DOMAIN dumped[arg][1]
       /\ \A r \in DOMAIN relaxed_poses :
             Conformation(relaxed_poses[r]) = Conformation(dumped[arg][1][r])

\* a pass of the loop of sidechain_relax or relax over rank r
RefinesRank(r) ==
    /\ pc \in {"sidechain_relax", "relax"}
    /\ it <= Len(errors)
    /\ errors[it] = r
    /\ it' = it + 1

\* C5: over any sequence of sidechain_relax and relax calls a rank is cloned
\* from original into relaxed at most once, and a pass over a rank already
\* in relaxed makes no clone and refines the relaxed pose that is there.
C5_ClonedOnce ==
    [][\A r \in Ranks :
          /\ cloned'[r] <= 1
          /\ (RefinesRank(r) /\ r \in DOMAIN relaxed_poses) =>
                /\ cloned'[r] = cloned[r]
                /\ relaxed_poses'[r] =
                      IF pc = "relax" THEN FullRelaxed(relaxed_poses[r])
                      ELSE ChiRelaxed(relaxed_poses[r])]_vars

\* a rank refined by two calls, cloned by the first only
C5_Witness ==
    /\ pc = "idle"
    /\ \E r \in DOMAIN relaxed_poses :
          /\ cloned[r] = 1
          /\ relaxed_poses[r].chi = 1
          /\ relaxed_poses[r].bb = 1

\* ------------------------------------------- claims on parse_phosphosite
Mods == {t.mod : t \in TokenChoices}

Listed(m) == IF HasKey(ptms, m) THEN ptms.val[m] ELSE <<>>

Numbers(ts) == [i \in 1..Len(ts) |-> ts[i].resi]

\* the numbers of the annotations of token m within [minimum, maximum], in
\* order of appearance
InClosedWindow(m) ==
    LET keep(t) == /\ t.resi > 0 /\ t.mod = m
                   /\ minimum <= t.resi /\ t.resi <= maximum
    IN  Numbers(SelectSeq(tokens, keep))

\* the same, a maximum below 1 standing for no upper bound
InWindow(m) ==
    LET keep(t) == /\ t.resi > 0 /\ t.mod = m
                   /\ minimum <= t.resi
                   /\ (maximum < 1 \/ t.resi <= maximum)
    IN  Numbers(SelectSeq(tokens, keep))

\* C8 as stated: the mapping returned holds, per token, the numbers of
\* exactly the annotations within [minimum, maximum], in order of
\* appearance.
C8_ClosedWindow ==
    parsed = "returned" =>
        \A m \in Mods : Listed(m) = InClosedWindow(m)

\* C8, amended: the same with a maximum below 1 (the default, -1) standing
\* for no upper bound; a token is a key exactly when it has such a number.
C8_WindowFilter ==
    parsed = "returned" =>
        /\ \A m \in Mods : /\ Listed(m) = InWindow(m)
                           /\ HasKey(ptms, m) <=> InWindow(m) # <<>>
        /\ \A k \in 1..Len(ptms.keys) : ptms.keys[k] \in Mods

\* "S45-p T99-p K12-m1" with the window [1, 50] gives {p: [45], m1: [12]}
C8_Witness ==
    /\ parsed = "returned"
    /\ tokens = <<Token("S", 45, <<"p">>), Token("T", 99, <<"p">>),
                  Token("K", 12, <<"m", "1">>)>>
    /\ minimum = 1 /\ maximum = 50
    /\ ptms.keys = <<(<<"p">>), (<<"m", "1">>)>>
    /\ Listed(<<"p">>) = <<45>>
    /\ Listed(<<"m", "1">>) = <<12>>

\* C9: parse_phosphosite fails when the text holds no modification marker
\* at all, and a text with at least one residue-number-token annotation, of
\* whatever kind, is parsed without error.
C9_FailsOnlyWithoutMarker ==
    parsed # "no" =>
        /\ tokens = <<>> => parsed = "AssertionError"
        /\ (\E i \in 1..Len(tokens) : tokens[i].resi > 0) => parsed = "returned"

\* ------------------------------------------- claims on the pose registry
\* a call of the method made by the caller in this step
Called(name) == calls' = calls + 1 /\ op' = name

\* the methods built on _generator_poses, and the generator itself
Iterating ==
    {"sidechain_relax", "relax", "constrain", "make_phosphorylated",
     "dump_pdbs", "_generator_poses"}

\* C11: _generator_poses on a group with no entry fails at the call, before
\* any triple is asked for: sidechain_relax, relax, constrain,
\* make_phosphorylated and dump_pdbs called on an empty group raise without
\* a pass of their loop, leaving the three groups, the catalog, the files
\* and the caller's generator as they were.
C11_FailsFast ==
    [][((\E name \in Iterating : Called(name)) /\ DOMAIN Poses(grp') = {})
       => /\ err' \in {"AssertionError", "ValueError", "KeyError"}
          /\ pc' = "idle"
          /\ UNCHANGED <<original_poses, relaxed_poses, phospho_poses, scores,
                         listing, gen, yielded, cloned>>]_vars

\* make_phosphorylated on a loaded analyser whose relaxed group is empty
C11_Witness ==
    /\ op = "make_phosphorylated" /\ pc = "idle"
    /\ err = "AssertionError"
    /\ DOMAIN original_poses # {}
    /\ DOMAIN relaxed_poses = {}
    /\ DOMAIN phospho_poses = {}

\* a step of the generator the caller holds
Stepped == gen.pos >= 1 /\ calls' = calls /\ gen' # gen

\* C12: the generator of a group that is not empty gives the triple of each
\* rank of the error table in the order of the table, the pose being the
\* one the group holds for the rank when the step is taken; at a rank the
\* group lacks it raises KeyError, the triples of the ranks before it having
\* been given.
C12_LazyJoin ==
    [][Stepped =>
          LET i == gen.pos
              group == Poses(gen.grp)
          IN  /\ Len(yielded) = i - 1
              /\ \A j \in 1..Len(yielded) :
                    yielded[j].index = errors[j] /\ yielded[j].error = errors[j]
              /\ IF i > Len(errors)
                 THEN err' = "StopIteration" /\ yielded' = yielded
                 ELSE IF errors[i] \notin DOMAIN group
                 THEN err' = "KeyError" /\ yielded' = yielded
                 ELSE /\ err' = "none"
                      /\ yielded' = Append(yielded,
                            [index |-> errors[i], pose |-> group[errors[i]],
                             error |-> errors[i]])]_vars

\* the first rank given, the second one missing from the group
C12_Witness ==
    /\ op = "next" /\ err = "KeyError"
    /\ Len(errors) = 2
    /\ Len(yielded) = 1
    /\ yielded[1].index = errors[1]
    /\ errors[2] \notin DOMAIN relaxed_poses

\* C13: constrain called while the original group is empty raises
\* ValueError, whichever group is named, and no pose of any group gets a
\* constraint.
C13_LoadFirst ==
    (op = "constrain" /\ DOMAIN original_poses = {})
    => /\ err = "ValueError"
       /\ pc = "idle"
       /\ \A g \in Groups : \A r \in DOMAIN Poses(g) : ~Poses(g)[r].cst

C13_Witness ==
    /\ op = "constrain" /\ grp = "phospho"
    /\ DOMAIN original_poses = {}
    /\ Len(errors) = 2
    /\ err = "ValueError"

\* p is an object made by depth clone() calls from the original pose of rank r
DerivedFrom(p, r, depth) ==
    /\ r \in DOMAIN original_poses
    /\ p.file = original_poses[r].file
    /\ p.clone = depth
    /\ ~SameObject(p, original_poses[r])

AsLoaded(r) ==
    LET path == original_poses[r].file
    IN  PoseFromFile(path, listing[path[1]][path[2]], nchains)

\* C15: no refinement and no patch ever changes a pose of the original
\* group, which stays as read from its file but for the constraints that
\* constrain('original') adds, and no patch and no neighbourhood refinement
\* changes a pose of the relaxed group.
C15_SourcePristine ==
    /\ \A r \in DOMAIN original_poses :
          original_poses[r] = [AsLoaded(r) EXCEPT !.cst = original_poses[r].cst]
    /\ \A r \in DOMAIN relaxed_poses :
          /\ relaxed_poses[r].res = Residues
          /\ relaxed_poses[r].nbr = 0

\* a rank refined in relaxed, then patched and refined in phospho
C15_Witness ==
    /\ pc = "idle"
    /\ \E r \in DOMAIN phospho_poses :
          /\ relaxed_poses[r].bb = 1
          /\ phospho_poses[r].bb = 1
          /\ phospho_poses[r].nbr = 1
          /\ phospho_poses[r].res # Residues
          /\ original_poses[r].bb = 0

\* ---------------------------------- claims on the catalog after construction
\* the columns the construction gives the catalog
ConstructionColumns ==
    {"name", "path", "rank", "model", "seed", "relaxed", "pLDDT", "pTMscore"}

\* C16: once the catalog is built and enriched, no step of any method
\* removes, adds or reorders a row, removes a column or changes a value of
\* a column of the construction.
C16_RowsKept ==
    [][pc \notin {"new", "built"} =>
          /\ Len(scores'.rows) = Len(scores.rows)
          /\ RankColumn(scores') = RankColumn(scores)
          /\ scores.cols \subseteq scores'.cols
          /\ \A i \in 1..Len(scores.rows) :
                \A c \in ConstructionColumns \cap scores.cols :
                    scores'.rows[i][c] = scores.rows[i][c]]_vars

\* two rows, with the columns of relax and of calculate_interface
C16_Witness ==
    /\ pc = "idle"
    /\ Len(scores.rows) = 2
    /\ {"dG", "interface_dG", "N_interchain_residues_1"} \subseteq scores.cols

\* relax, alone or as the last stage of constrain_and_relax, has returned
AfterRelax ==
    /\ op \in {"relax", "constrain_and_relax"}
    /\ pc = "idle"
    /\ err = "none"

\* C17: when relax has returned, dG is in every row the score of the
\* relaxed pose of the rank of the row; when calculate_interface has added
\* its columns, each holds in every row the value of the relaxed pose of
\* the rank of the row.
C17_RankAligned ==
    /\ AfterRelax =>
          \A i \in 1..Len(scores.rows) :
              scores.rows[i]["dG"] =
                  Score(relaxed_poses[scores.rows[i]["rank"]], 0)
    /\ (op = "calculate_interface" /\ err = "none" /\ "dG" \in scores.cols) =>
          \A i \in 1..Len(scores.rows) : \A k \in 1..Len(InterfaceColumns) :
              scores.rows[i][InterfaceColumns[k]] =
                  InterfaceValue(InterfaceColumns[k], scores,
                                 scores.rows[i]["rank"],
                                 relaxed_poses[scores.rows[i]["rank"]])

\* the interface columns of a catalog whose rows are rank 2, then rank 1
C17_Witness ==
    /\ op = "calculate_interface" /\ err = "none"
    /\ RankColumn(scores) = <<2, 1>>
    /\ {"dG", "interface_dG"} \subseteq scores.cols

\* ----------------------------------------- claims on the refinement stages
\* C18: within constrain_and_relax no constraint is added before every rank
\* went through the sidechain refinement and no full refinement is made
\* before every rank got its constraints; on a loaded analyser, unless the
\* engine fails, the call returns with every rank of the error table in the
\* relaxed group, constrained and fully refined, and with the dG column.
C18_StagesInOrder ==
    op = "constrain_and_relax" =>
        /\ done.cst > 0 => done.chi = Len(errors)
        /\ done.bb > 0 => done.cst = Len(errors)
        /\ (pc = "idle" /\ DOMAIN original_poses # {} /\ err # "RuntimeError") =>
              /\ err = "none"
              /\ done = [chi |-> Len(errors), cst |-> Len(errors), bb |-> Len(errors)]
              /\ \A j \in 1..Len(errors) :
                    /\ errors[j] \in DOMAIN relaxed_poses
                    /\ relaxed_poses[errors[j]].cst
              /\ "dG" \in scores.cols

C18_Witness ==
    /\ op = "constrain_and_relax" /\ pc = "idle" /\ err = "none"
    /\ done = [chi |-> 2, cst |-> 2, bb |-> 2]
    /\ DOMAIN relaxed_poses = {1, 2}
    /\ "dG" \in scores.cols

\* C19: the passes of sidechain_relax run with the constraint weight at 0,
\* those of relax with the weight at 1, the weight going back to 0 only
\* when the loop of relax is over, and no entry of dG holds a constraint
\* term.
C19_WeightDiscipline ==
    /\ pc = "sidechain_relax" => weight = 0
    /\ pc = "relax" => weight = 1
    /\ AfterRelax =>
          /\ weight = 0
          /\ \A i \in 1..Len(scores.rows) : scores.rows[i]["dG"][5] = FALSE

\* relax returned on poses that carry constraints
C19_Witness ==
    /\ AfterRelax
    /\ weight = 0
    /\ Len(scores.rows) = 2
    /\ \A r \in DOMAIN relaxed_poses : relaxed_poses[r].cst /\ relaxed_poses[r].bb = 1

\* C20: a failure of the engine in a pass of sidechain_relax or relax ends
\* the call with that exception: the ranks after the failed one are neither
\* cloned nor refined, the catalog gets no column, and nothing changes
\* until the caller makes another call.
C20_FailureHalts ==
    [][/\ (pc \in {"sidechain_relax", "relax"} /\ err' = "RuntimeError") =>
             /\ pc' = "idle"
             /\ stage' = 0
             /\ scores' = scores
             /\ \A j \in (it + 1)..Len(errors) :
                   /\ cloned'[errors[j]] = cloned[errors[j]]
                   /\ (errors[j] \in DOMAIN relaxed_poses') =
                         (errors[j] \in DOMAIN relaxed_poses)
                   /\ errors[j] \in DOMAIN relaxed_poses =>
                         relaxed_poses'[errors[j]] = relaxed_poses[errors[j]]
       /\ (pc = "idle" /\ err = "RuntimeError" /\ calls' = calls) =>
             UNCHANGED <<relaxed_poses, cloned, scores>>]_vars

\* relax failed on the first of two ranks
C20_Witness ==
    /\ op = "relax" /\ pc = "idle" /\ err = "RuntimeError"
    /\ Len(errors) = 2 /\ it = 1
    /\ DOMAIN relaxed_poses = {errors[1]}
    /\ "dG" \notin scores.cols

\* ---------------------------------------------------------------------- C21
\* the kinds _phospho_pose has a patch for, and those it restricts to lysine
KnownKinds == {<<"p">>, <<"a", "c">>, <<"m", "1">>, <<"m", "2">>, <<"m", "3">>}

Methylations == {<<"m", "1">>, <<"m", "2">>, <<"m", "3">>}

\* the known kinds of an annotation that list the pose index r
KindsOf(modifications, r) ==
    {k \in KnownKinds \cap DOMAIN modifications.val :
        \E i \in 1..Len(modifications.val[k]) : modifications.val[k][i] = r}

\* the passes of the running make_phosphorylated call that have returned
Patched == IF pc = "make_phosphorylated" THEN 1..(it - 1) ELSE {}

\* what one returned call of _phospho_pose has to have done: from the pose
\* before, the one after, and the residues it returned
AsAnnotated(modifications, before, after, valids) ==
    LET mutated == {valids[i] : i \in 1..Len(valids)} IN
    /\ mutated \subseteq 1..Len(before.res)
    /\ \A r \in 1..Len(before.res) :
          /\ after.res[r] # before.res[r] <=> r \in mutated
          /\ r \in mutated =>
                \E k \in KindsOf(modifications, r) :
                    k \in Methylations => before.res[r] = Unpatched("LYS")
          /\ r \notin mutated =>
                \A k \in KindsOf(modifications, r) :
                    k \in Methylations /\ before.res[r] # Unpatched("LYS")
    /\ after.nbr = before.nbr + (IF mutated = {} THEN 0 ELSE 1)
    /\ [after EXCEPT !.res = before.res, !.nbr = before.nbr] = before

\* C21: a call of _phospho_pose that returns has mutated, and returns,
\* exactly the residues with a pose index other than 0 that a known kind
\* lists and that, for a methylation, are an unmodified lysine when their
\* turn comes; the residues of 'ub' and of an unknown kind, and those that
\* fail the restriction, are left as they were; it has run one refinement
\* of the neighbourhood when it mutated a residue and none when it did not.
C21_ExactlyAnnotated ==
    \A i \in Patched :
        LET before == Clone(relaxed_poses[errors[i]])
            call == _phospho_pose(before, local)
        IN  /\ call.raised = "none"
            /\ phospho_poses[errors[i]] = call.pose
            /\ AsAnnotated(local, before, call.pose, call.valids)

\* the call has returned for an annotation with an unmapped number, a
\* serine under 'p' and under 'm1', a lysine under 'm1', an arginine under
\* 'm1', 'ub' and an unknown kind: the serine and the lysine are mutated
C21_Witness ==
    /\ Patched # {}
    /\ <<"u", "b">> \in DOMAIN local.val
    /\ <<"g", "l">> \in DOMAIN local.val
    /\ \E i \in Patched :
          LET after == phospho_poses[errors[i]] IN
          /\ after.res[1].patch = "phosphorylated"
          /\ after.res[2].patch = "monomethylated"
          /\ after.res[3] = Unpatched("ARG")
          /\ after.nbr = 1
          /\ \E j \in 1..Len(local.val[<<"p">>]) : local.val[<<"p">>][j] = 0

\* ---------------------------------------------------------------------- C22
\* the four columns find_interface_residues writes
ResidueColumns ==
    {"interchain_residues_1", "interchain_residues_2",
     "N_interchain_residues_1", "N_interchain_residues_2"}

\* the step is a call of find_interface_residues by the caller
InterfaceCall == Called("find_interface_residues")

SingleChain == \E r \in DOMAIN relaxed_poses : relaxed_poses[r].chains = 1

\* C22: a call of find_interface_residues with the relaxed group empty, or
\* holding a structure of one chain, fails with the state error (the
\* assertion) and leaves the catalog as it was; a call that succeeds on a
\* catalog without the columns adds the two residue-set and the two
\* residue-count columns and nothing else; a call on a catalog that has
\* them returns and leaves the catalog as it was.
C22_InterfaceOnce ==
    [][InterfaceCall =>
        /\ "N_interchain_residues_1" \notin scores.cols
              /\ (relaxed_poses = <<>> \/ SingleChain)
              => err' = "AssertionError" /\ scores' = scores
        /\ "N_interchain_residues_1" \notin scores.cols /\ err' = "none"
              => /\ scores'.cols = scores.cols \cup ResidueColumns
                 /\ ResidueColumns \cap scores.cols = {}
                 /\ Len(scores'.rows) = Len(scores.rows)
        /\ "N_interchain_residues_1" \in scores.cols
              => err' = "none" /\ scores' = scores]_vars

\* ---------------------------------------------------------------------- C23
\* the highest index among the non-empty rows
Highest(rws) ==
    CHOOSE m \in {rws[p][1] : p \in Kept(rws)} :
        \A p \in Kept(rws) : rws[p][1] <= m

\* the rows of the values stand, in their order, right after position p
PlacedAfter(before, after, p, values) ==
    /\ Len(after) = Len(before) + Len(values)
    /\ \A j \in 1..Len(values) : after[p + j] = <<0, "X", "D", values[j]>>
    /\ \A q \in 1..p : after[q][1] = before[q][1]

\* C23: max() is one number, the highest index among the non-empty rows,
\* and so insert_after(idx, value) on an index the blueprint holds returns
\* without an exception, with the new rows right after the row of index
\* idx, whatever was deleted and inserted before.
C23_InsertAfterCompletes ==
    [][\A idx \in Indices : \A value \in ValueChoices :
          Insert(idx, value, FALSE) /\ __getitem__(rows, idx) # 0 =>
              /\ max(rows').type = "int"
              /\ max(rows').val = Highest(rows')
              /\ err' = "none"
              /\ PlacedAfter(rows, rows', __getitem__(rows, idx),
                             Homogenise(value))]_vars
====
